---- MODULE Spec2Model ----
(***************************************************************************)
(* Model of decorest's request-synthesis engine:                           *)
(*   - the metadata store (set_decor / get_decor, decorators.py:46-87),    *)
(*   - the decorators that attach metadata (decorators.py:90-258),         *)
(*   - HttpMethodDecorator.call (decorators.py:268-506),                   *)
(*   - the session wrappers (session.py).                                  *)
(*                                                                         *)
(* Python values are tagged records, so values of different Python types   *)
(* can be compared:                                                        *)
(*   [kind |-> "none"]                     None                            *)
(*   [kind |-> "scalar", s |-> "0"]        a number, bool or str literal   *)
(*   [kind |-> "tuple", name, ser]         the (name, serializer) of @body *)
(*   [kind |-> "dict", d |-> f]            dict, f a function key -> value *)
(*   [kind |-> "cid",  d |-> f]            CaseInsensitiveDict, f keyed by *)
(*                                         the lower-cased key             *)
(*   [kind |-> "list", l |-> seq]          list                            *)
(*   [kind |-> "object", id |-> "h1"]      any other object: a handler, a  *)
(*                                         session, a transport module     *)
(* Dict keys are strings; the values held in a dict or list are tagged.    *)
(***************************************************************************)
EXTENDS Integers, Sequences, FiniteSets, TLC

VARIABLES own, heap, log, ndecor, wrapped, client, call, sess

storeVars == <<own, heap, log>>
vars == <<own, heap, log, ndecor, wrapped, client, call, sess>>

----------------------------------------------------------------------------
(* Python values *)

None == [kind |-> "none"]
Scalar(s) == [kind |-> "scalar", s |-> s]
Dict(f) == [kind |-> "dict", d |-> f]
CID(f) == [kind |-> "cid", d |-> f]
List(q) == [kind |-> "list", l |-> q]
Object(id) == [kind |-> "object", id |-> id]
EmptyMap == [k \in {} |-> "x"]

\* The literals whose truth value is False: 0, False and the empty string.
FalsyLiterals == {"0", "False", ""}

\* Python's truth value of an object, as `if x:` / `not x` test it.
Truthy(v) ==
    CASE v.kind = "none" -> FALSE
      [] v.kind = "scalar" -> v.s \notin FalsyLiterals
      [] v.kind \in {"tuple", "object", "serialized", "json"} -> TRUE
      [] v.kind \in {"dict", "cid"} -> DOMAIN v.d # {}
      [] v.kind = "list" -> Len(v.l) > 0

\* str.lower() on the header names the model uses (CaseInsensitiveDict keys).
Lower(k) ==
    CASE k = "Content-Type" -> "content-type"
      [] k = "Accept" -> "accept"
      [] k = "X-Tok" -> "x-tok"
      [] OTHER -> k

\* dict.get(name): the value, or None when the key is missing.
DictGet(f, k) == IF k \in DOMAIN f THEN f[k] ELSE None

\* f with key k set to v (d[k] = v).
DictPut(f, k, v) == [x \in DOMAIN f \cup {k} |-> IF x = k THEN v ELSE f[x]]

\* dict.update(g): g's entries replace f's on a shared key.
DictUpdate(f, g) == [x \in DOMAIN f \cup DOMAIN g |-> IF x \in DOMAIN g THEN g[x] ELSE f[x]]

\* utils.merge_dicts(a, b): merges the mappings given, skipping None; a
\* repeated key takes the later mapping's value.  The result has the type of
\* the first mapping that is not None (a CaseInsensitiveDict stays one, and
\* every key the model puts into one is already lower-cased).
merge_dicts(a, b) ==
    IF a.kind = "none" /\ b.kind = "none" THEN Dict(EmptyMap)
    ELSE IF a.kind = "none" THEN b
    ELSE IF b.kind = "none" THEN a
    ELSE [kind |-> a.kind, d |-> DictUpdate(a.d, b.d)]

----------------------------------------------------------------------------
(* Declarations and their __decorest__ attribute *)

\* The declarations: a client class and its parent class, a method, and the
\* wrapper an HTTP-method decorator returns around the method.
Decls == {"base", "cls", "func", "wrap"}
NoDecl == "none"

\* The class a class inherits from: attribute lookup (hasattr / getattr)
\* on a class falls back to its base classes.
Parent(t) == IF t = "cls" THEN "base" ELSE NoDecl

\* t.__wrapped__, which functools.wraps sets on the wrapper.
Wrapped(t) == IF t = "wrap" THEN "func" ELSE NoDecl

\* own[t] is the dict object t's own __decorest__ attribute refers to (dict
\* objects are named after the declaration set_decor created them for), or
\* NoDecl when t has no attribute of its own.  heap[s] is dict object s.

\* hasattr(t, DECOR_KEY)
HasDecorKey(o, t) ==
    \/ o[t] # NoDecl
    \/ (Parent(t) # NoDecl /\ o[Parent(t)] # NoDecl)

\* getattr(t, DECOR_KEY): the dict object the attribute resolves to.
DecorOf(o, t) == IF o[t] # NoDecl THEN o[t] ELSE o[Parent(t)]

\* get_decor(t, name)
get_decor(o, h, t, name) ==
    IF HasDecorKey(o, t) /\ Truthy(DictGet(h[DecorOf(o, t)], name))
    THEN h[DecorOf(o, t)][name]
    ELSE None

\* set_decor, lines 48-49: a wrapper whose wrapped function has metadata is
\* made to refer to the wrapped function's dict object.
set_decor_alias(o, t) ==
    IF Wrapped(t) # NoDecl /\ HasDecorKey(o, Wrapped(t))
    THEN [o EXCEPT ![t] = DecorOf(o, Wrapped(t))]
    ELSE o

\* A mutation of set_decor_value: a list replaces the stored list.
set_decor_value_replace(cur, value) ==
    CASE value.kind \in {"cid", "dict"} ->
            merge_dicts(IF ~Truthy(cur) THEN [kind |-> value.kind, d |-> EmptyMap] ELSE cur,
                        value)
      [] OTHER -> value

\* set_decor, lines 56-69: the value stored under the key, from the value
\* d.get(name) returned (cur) and the value being set.
set_decor_value(cur, value) ==
    CASE value.kind \in {"cid", "dict"} ->
            merge_dicts(IF ~Truthy(cur) THEN [kind |-> value.kind, d |-> EmptyMap] ELSE cur,
                        value)
      [] value.kind = "list" ->
            List((IF ~Truthy(cur) THEN <<>> ELSE cur.l) \o value.l)
      [] OTHER -> value

\* set_decor(t, name, value): the attribute table and the heap afterwards.
\* Lines 51-52 create a new dict object when hasattr finds none.
set_decor(o, h, t, name, value) ==
    LET o1 == set_decor_alias(o, t)
        fresh == ~HasDecorKey(o1, t)
        o2 == IF fresh THEN [o1 EXCEPT ![t] = t] ELSE o1
        s == DecorOf(o2, t)
        d == IF fresh THEN EmptyMap ELSE h[s]
    IN  [own |-> o2,
         heap |-> [h EXCEPT ![s] = DictPut(d, name, set_decor_value(DictGet(d, name), value))]]

----------------------------------------------------------------------------
(* HttpMethodDecorator.call: request synthesis *)

DECOR_LIST ==
    <<"header", "query", "form", "multipart", "on", "accept", "content",
      "timeout", "stream", "body">>

NoErr == [type |-> "none"]

\* The literals that are numbers.
NumberLiterals == {"0", "5", "7", "9"}

\* type(v), as far as the isinstance tests of the call distinguish it.
PyType(v) ==
    CASE v.kind = "scalar" ->
            (IF v.s \in {"True", "False"} THEN "bool"
             ELSE IF v.s \in NumberLiterals THEN "int" ELSE "str")
      [] OTHER -> v.kind

\* isinstance(v, cls) for the classes __validate_decor is called with; bool
\* is a subclass of int, so True and False are numbers.Number instances.
IsInstance(v, cls) ==
    CASE cls = "dict" -> v.kind = "dict"
      [] cls = "str" -> PyType(v) = "str"
      [] cls = "Number" -> PyType(v) \in {"int", "bool"}
      [] cls = "bool" -> PyType(v) = "bool"
      [] OTHER -> TRUE

\* del d[k]
DictRemove(f, k) == [x \in DOMAIN f \ {k} |-> f[x]]

\* header_parameters[k] = v on a mapping object.
MapPut(m, k, v) == [m EXCEPT !.d = DictPut(@, k, v)]

\* k in m
MapHas(m, k) == k \in DOMAIN m.d

\* __merge_args(args_dict, func, decor): the declared (argument, parameter)
\* pairs whose argument has a true value in args_dict.
merge_args(o, h, args, decor) ==
    LET args_decor == get_decor(o, h, "func", decor)
    IN  IF Truthy(args_decor)
        THEN LET bound == {a \in DOMAIN args_decor.d : Truthy(DictGet(args, a))}
                 params == {args_decor.d[a].s : a \in bound}
             IN  Dict([q \in params |->
                        args[CHOOSE a \in bound : args_decor.d[a].s = q]])
        ELSE Dict(EmptyMap)

\* A mutation of header_defaults: a literal method-level header is a default
\* only for a key that has no value yet.
header_defaults_keep_earlier(o, h, args, header_parameters) ==
    LET func_header_decors == get_decor(o, h, "func", "header")
    IN  IF Truthy(func_header_decors)
        THEN LET lits == {k \in DOMAIN func_header_decors.d :
                             /\ func_header_decors.d[k].s \notin DOMAIN args
                             /\ k \notin DOMAIN header_parameters.d}
             IN  [header_parameters EXCEPT !.d =
                     [k \in DOMAIN @ \cup lits |->
                         IF k \in lits THEN func_header_decors.d[k] ELSE @[k]]]
        ELSE header_parameters

\* Lines 293-297: a method-level header whose declared value is not the name
\* of a bound argument is a literal default.
header_defaults(o, h, args, header_parameters) ==
    LET func_header_decors == get_decor(o, h, "func", "header")
    IN  IF Truthy(func_header_decors)
        THEN LET lits == {k \in DOMAIN func_header_decors.d :
                             func_header_decors.d[k].s \notin DOMAIN args}
             IN  [header_parameters EXCEPT !.d =
                     [k \in DOMAIN @ \cup lits |->
                         IF k \in lits THEN func_header_decors.d[k] ELSE @[k]]]
        ELSE header_parameters

\* Lines 301-308: the body content from the @body binding.
body_from_args(o, h, args) ==
    LET body_parameter == get_decor(o, h, "func", "body")
    IN  IF Truthy(body_parameter)
        THEN LET body_content == DictGet(args, body_parameter.name)
             IN  IF Truthy(body_content) /\ body_parameter.ser # "none"
                 THEN [kind |-> "serialized", by |-> body_parameter.ser, of |-> body_content]
                 ELSE body_content
        ELSE None

\* Lines 317-320: the timeout from the declarations.
declared_timeout(o, h) ==
    IF Truthy(get_decor(o, h, "func", "timeout"))
    THEN get_decor(o, h, "func", "timeout")
    ELSE get_decor(o, h, "cls", "timeout")

\* Lines 322-325: the stream flag from the declarations.
declared_stream(o, h) ==
    IF get_decor(o, h, "func", "stream") = None
    THEN get_decor(o, h, "cls", "stream")
    ELSE get_decor(o, h, "func", "stream")

\* The class each override key is validated against (lines 336-378); the
\* body override is taken as it is.
ExpectedType(decor) ==
    CASE decor \in {"header", "query", "form", "multipart", "on"} -> "dict"
      [] decor \in {"accept", "content"} -> "str"
      [] decor = "timeout" -> "Number"
      [] decor = "stream" -> "bool"
      [] OTHER -> "any"

\* A mutation of validate_decor: the check of the stream override is missing.
validate_decor_skips_stream(decor, kwargs, cls) ==
    IF decor = "stream" \/ IsInstance(kwargs[decor], cls)
    THEN NoErr
    ELSE [type |-> "TypeError", key |-> decor, expected |-> cls]

\* __validate_decor(decor, kwargs, cls): the TypeError raised, or NoErr.
validate_decor(decor, kwargs, cls) ==
    IF IsInstance(kwargs[decor], cls)
    THEN NoErr
    ELSE [type |-> "TypeError", key |-> decor, expected |-> cls]

\* Lines 335-380: one turn of the loop over DECOR_LIST.  st holds the values
\* being resolved, the remaining kwargs and the error raised so far.
apply_override(st, decor) ==
    IF st.err # NoErr \/ decor \notin DOMAIN st.kwargs THEN st
    ELSE LET e == validate_decor(decor, st.kwargs, ExpectedType(decor))
             v == st.kwargs[decor]
             rest == DictRemove(st.kwargs, decor)
         IN  IF e # NoErr THEN [st EXCEPT !.err = e]
             ELSE CASE decor = "header" ->
                         [st EXCEPT !.header = merge_dicts(@, v), !.kwargs = rest]
                    [] decor = "query" ->
                         [st EXCEPT !.query = merge_dicts(@, v), !.kwargs = rest]
                    [] decor = "form" ->
                         [st EXCEPT !.form = merge_dicts(@, v), !.kwargs = rest]
                    [] decor = "multipart" ->
                         [st EXCEPT !.multipart = merge_dicts(@, v), !.kwargs = rest]
                    [] decor = "on" ->
                         [st EXCEPT !.on = merge_dicts(@, v), !.kwargs = rest]
                    [] decor = "accept" ->
                         [st EXCEPT !.header = MapPut(@, "accept", v), !.kwargs = rest]
                    [] decor = "content" ->
                         [st EXCEPT !.header = MapPut(@, "content-type", v), !.kwargs = rest]
                    [] decor = "timeout" ->
                         [st EXCEPT !.timeout = v, !.kwargs = rest]
                    [] decor = "stream" ->
                         [st EXCEPT !.stream = v, !.kwargs = rest]
                    [] decor = "body" ->
                         [st EXCEPT !.body = v, !.kwargs = rest]

\* Lines 333-380: the loop over DECOR_LIST, from its i-th entry on.
RECURSIVE apply_overrides(_, _)
apply_overrides(st, i) ==
    IF i > Len(DECOR_LIST) THEN st
    ELSE apply_overrides(apply_override(st, DECOR_LIST[i]), i + 1)

\* Lines 271-380: the values resolved from the declarations, the bound
\* arguments and the call-time overrides.
resolve(o, h, args, kw) ==
    LET session == DictGet(kw, "__session")
        kwargs == DictRemove(kw, "__session")
        header_parameters ==
            header_defaults(o, h, args,
                merge_dicts(get_decor(o, h, "cls", "header"),
                            merge_args(o, h, args, "header")))
        st0 == [ header |-> header_parameters,
                 query |-> merge_args(o, h, args, "query"),
                 form |-> merge_args(o, h, args, "form"),
                 multipart |-> merge_args(o, h, args, "multipart"),
                 on |-> merge_dicts(get_decor(o, h, "cls", "on"),
                                    get_decor(o, h, "func", "on")),
                 timeout |-> declared_timeout(o, h),
                 stream |-> declared_stream(o, h),
                 body |-> body_from_args(o, h, args),
                 kwargs |-> kwargs,
                 err |-> NoErr,
                 session |-> session,
                 http_method |-> get_decor(o, h, "func", "http_method") ]
    IN  apply_overrides(st0, 1)

\* Lines 387-395: whether the request is a multipart request.  The raw
\* `data` / `files` keyword arguments the model passes are never a
\* MultipartEncoder.
is_multipart(backend, st) ==
    IF Truthy(st.multipart) THEN TRUE
    ELSE IF backend = "requests" THEN "data" \in DOMAIN st.kwargs
    ELSE "files" \in DOMAIN st.kwargs

\* json.dumps(body_content)
JsonDumps(v) == [kind |-> "json", of |-> v]

\* Lines 415-426: the body content as placed in the transport's keywords.
body_kwargs(backend, header_parameters, body_content, kwargs) ==
    IF Truthy(body_content)
    THEN LET dumped ==
                 IF DictGet(header_parameters.d, "content-type") = Scalar("application/json")
                    /\ body_content.kind = "dict"
                 THEN JsonDumps(body_content) ELSE body_content
         IN  IF backend = "httpx"
             THEN (IF dumped.kind = "dict"
                   THEN DictPut(kwargs, "data", dumped)
                   ELSE DictPut(kwargs, "content", dumped))
             ELSE DictPut(kwargs, "data", dumped)
    ELSE kwargs

\* Lines 383-441: the keyword arguments of the transport call, with the
\* content types the engine itself assigned on the way (forced).
build_kwargs(backend, auth, st) ==
    LET is_multipart_request == is_multipart(backend, st)
        k1 == IF Truthy(st.multipart)
              THEN DictPut(st.kwargs, "files", st.multipart) ELSE st.kwargs
        json_default == ~MapHas(st.header, "content-type") /\ ~is_multipart_request
        h1 == IF json_default
              THEN MapPut(st.header, "content-type", Scalar("application/json"))
              ELSE st.header
        h2 == IF ~MapHas(h1, "accept")
              THEN MapPut(h1, "accept", Scalar("application/json")) ELSE h1
        k2 == IF Truthy(auth) THEN DictPut(k1, "auth", auth) ELSE k1
        k3 == IF Truthy(st.timeout) THEN DictPut(k2, "timeout", st.timeout) ELSE k2
        k4 == body_kwargs(backend, h2, st.body, k3)
        k5 == IF Truthy(st.query) THEN DictPut(k4, "params", st.query) ELSE k4
        h3 == IF Truthy(st.form)
              THEN MapPut(h2, "content-type", Scalar("application/x-www-form-urlencoded"))
              ELSE h2
        k6 == IF Truthy(st.form) THEN DictPut(k5, "data", st.form) ELSE k5
        k7 == IF Truthy(st.stream) THEN DictPut(k6, "stream", st.stream) ELSE k6
        k8 == IF Truthy(h3) THEN DictPut(k7, "headers", Dict(h3.d)) ELSE k7
    IN  [ kwargs |-> k8,
          header |-> h3,
          is_multipart_request |-> is_multipart_request,
          forced |-> (IF json_default THEN {"application/json"} ELSE {})
                     \cup (IF Truthy(st.form)
                           THEN {"application/x-www-form-urlencoded"} ELSE {}) ]

\* The HTTP verbs of HttpMethod the call accepts (lines 457-459).
HttpMethods == {"GET", "POST", "PUT", "PATCH", "DELETE", "HEAD", "OPTIONS"}

\* A mutation of execution_context: the session is not used.
execution_context_ignores_session(backend, session) == Object(backend)

\* Lines 448-455: the object the request is executed on.
execution_context(backend, session) ==
    IF Truthy(session) THEN session ELSE Object(backend)

\* Lines 463-475: the transport call made: the object, the method called on
\* it and the keyword arguments it receives.
transport_call(backend, st, built) ==
    LET ctx == execution_context(backend, st.session)
        verb == st.http_method.s
    IN  IF backend = "httpx" /\ verb = "GET" /\ Truthy(st.stream)
        THEN [ on |-> ctx, method |-> "stream", verb |-> "GET",
               kwargs |-> DictRemove(built.kwargs, "stream") ]
        ELSE [ on |-> ctx, method |-> verb, verb |-> verb,
               kwargs |->
                   IF verb = "POST" /\ built.is_multipart_request
                      /\ "headers" \in DOMAIN built.kwargs
                   THEN [built.kwargs EXCEPT !["headers"] =
                            Dict(DictRemove(@.d, "content-type"))]
                   ELSE built.kwargs ]

----------------------------------------------------------------------------
(* HttpMethodDecorator.call: response routing *)

\* The status codes Response.raise_for_status() raises for (4xx and 5xx).
ErrorStatuses == {"404", "500"}

\* HTTPErrorWrapper(e)
HTTPErrorWrapper(e) == [type |-> "HTTPErrorWrapper", cause |-> e]

\* Lines 491-506: the default response handler.
default_handler(result) ==
    IF result.status \in ErrorStatuses
    THEN [ kind |-> "raise", branch |-> "default",
           exc |-> HTTPErrorWrapper([type |-> "HTTPError", status |-> result.status]) ]
    ELSE [ kind |-> "return", branch |-> "default",
           value |->
             IF result.text # ""
             THEN (CASE result.ctype = "application/json" ->
                           [kind |-> "decoded", as |-> "json", of |-> result.text]
                     [] result.ctype = "application/octet-stream" ->
                           [kind |-> "decoded", as |-> "content", of |-> result.text]
                     [] OTHER ->
                           [kind |-> "decoded", as |-> "text", of |-> result.text])
             ELSE None ]

\* handler(result): the value a status handler returns for a response.
Handled(handler, result) == [kind |-> "handled", by |-> handler, arg |-> result]

\* A mutation of route: the wildcard handler is looked up first.
route_wildcard_first(on_handlers, is_stream, result) ==
    IF Truthy(on_handlers) /\ "any" \in DOMAIN on_handlers.d
    THEN [ kind |-> "return", branch |-> "wildcard",
           value |-> Handled(on_handlers.d["any"], result) ]
    ELSE IF Truthy(on_handlers) /\ result.status \in DOMAIN on_handlers.d
    THEN [ kind |-> "return", branch |-> "exact",
           value |-> Handled(on_handlers.d[result.status], result) ]
    ELSE IF Truthy(is_stream)
    THEN [kind |-> "return", branch |-> "stream", value |-> result]
    ELSE default_handler(result)

\* A mutation of route: a status handler does not stop the default handling
\* of an error status.
route_raises_despite_handler(on_handlers, is_stream, result) ==
    IF result.status \in ErrorStatuses /\ ~Truthy(is_stream)
    THEN default_handler(result)
    ELSE IF Truthy(on_handlers) /\ result.status \in DOMAIN on_handlers.d
    THEN [ kind |-> "return", branch |-> "exact",
           value |-> Handled(on_handlers.d[result.status], result) ]
    ELSE IF Truthy(on_handlers) /\ "any" \in DOMAIN on_handlers.d
    THEN [ kind |-> "return", branch |-> "wildcard",
           value |-> Handled(on_handlers.d["any"], result) ]
    ELSE IF Truthy(is_stream)
    THEN [kind |-> "return", branch |-> "stream", value |-> result]
    ELSE default_handler(result)

\* Lines 479-506: the call's result for the transport's response.
route(on_handlers, is_stream, result) ==
    IF Truthy(on_handlers) /\ result.status \in DOMAIN on_handlers.d
    THEN [ kind |-> "return", branch |-> "exact",
           value |-> Handled(on_handlers.d[result.status], result) ]
    ELSE IF Truthy(on_handlers) /\ "any" \in DOMAIN on_handlers.d
    THEN [ kind |-> "return", branch |-> "wildcard",
           value |-> Handled(on_handlers.d["any"], result) ]
    ELSE IF Truthy(is_stream)
    THEN [kind |-> "return", branch |-> "stream", value |-> result]
    ELSE default_handler(result)

\* A mutation of after_transport: an exception of a streamed request is let
\* through as it is.
after_transport_stream_unwrapped(c, reply) ==
    IF reply.kind = "exception"
    THEN [ kind |-> "raise", branch |-> "transport",
           exc |-> IF c.sent.method = "stream" \/ "stream" \in DOMAIN c.sent.kwargs
                   THEN reply.exc ELSE HTTPErrorWrapper(reply.exc) ]
    ELSE route(c.st.on, c.st.stream, reply.response)

\* Lines 463-506: how the call ends once the transport has raised an
\* exception or returned a response.
after_transport(c, reply) ==
    IF reply.kind = "exception"
    THEN [kind |-> "raise", branch |-> "transport", exc |-> HTTPErrorWrapper(reply.exc)]
    ELSE route(c.st.on, c.st.stream, reply.response)

----------------------------------------------------------------------------
(* The decorators *)

\* Each decorator as the set_decor call it makes: <<key, value>>.
on(status, handler) == <<"on", Dict(status :> handler)>>
query(name, value) == <<"query", Dict(name :> Scalar(IF value = "" THEN name ELSE value))>>
form(name, value) == <<"form", Dict(name :> Scalar(IF value = "" THEN name ELSE value))>>
multipart(name, value) == <<"multipart", Dict(name :> Scalar(IF value = "" THEN name ELSE value))>>
header(name, value) == <<"header", CID(Lower(name) :> Scalar(IF value = "" THEN name ELSE value))>>
content(value) == <<"header", CID(Lower("Content-Type") :> Scalar(value))>>
accept(value) == <<"header", CID(Lower("Accept") :> Scalar(value))>>
body(name, serializer) == <<"body", [kind |-> "tuple", name |-> name, ser |-> serializer]>>
timeout(value) == <<"timeout", Scalar(value)>>
stream == <<"stream", Scalar("True")>>

----------------------------------------------------------------------------
(* The metadata store on its own: set_decor applied to any declaration *)

\* The most set_decor calls in one behaviour of SpecStore.
MaxSets == 3

\* The (key, value) pairs set_decor is called with: mappings as @on sets
\* them, case-insensitive mappings as @header and @accept set them, lists,
\* and scalars as @timeout sets them, the falsy 0 included.
StoreInputs ==
    { <<"on", Dict("404" :> Object("h1"))>>, <<"on", Dict("404" :> Object("h2"))>>,
      <<"header", CID(Lower("Accept") :> Scalar("v1"))>>,
      <<"header", CID(Lower("X-Tok") :> Scalar("v2"))>>,
      <<"tags", List(<<"a">>)>>, <<"tags", List(<<"b">>)>>,
      <<"timeout", Scalar("0")>>, <<"timeout", Scalar("5")>> }

StoreKeys == {p[1] : p \in StoreInputs}

\* No declaration has metadata yet.
NoMetadata ==
    /\ own = [t \in Decls |-> NoDecl]
    /\ heap = [t \in Decls |-> EmptyMap]
    /\ log = <<>>

InitStore ==
    /\ NoMetadata
    /\ ndecor = 0
    /\ wrapped = FALSE
    /\ client = None
    /\ call = None
    /\ sess = None

\* One call set_decor(t, name, value).  log records the call and the dict
\* object it wrote to.
SetDecor(t, name, value) ==
    /\ Len(log) < MaxSets
    /\ LET r == set_decor(own, heap, t, name, value)
       IN  /\ own' = r.own
           /\ heap' = r.heap
           /\ log' = Append(log, [t |-> t, name |-> name, value |-> value,
                                  obj |-> DecorOf(r.own, t)])
    /\ UNCHANGED <<ndecor, wrapped, client, call, sess>>

NextStore == \E t \in Decls : \E p \in StoreInputs : SetDecor(t, p[1], p[2])

SpecStore == InitStore /\ [][NextStore]_vars

----------------------------------------------------------------------------
(* Declaring a client and calling its method *)

\* The most decorators applied to the client class and its method, the
\* HTTP-method decorator not counted.
MaxDecors == 2

Idle == [pc |-> "idle"]

\* The clients: their backend (rest_client._backend()) and what
\* rest_client._auth() returns.
Clients ==
    { [backend |-> "requests", auth |-> None],
      [backend |-> "httpx", auth |-> Scalar("tok")] }

\* The verbs of the HTTP-method decorators applied to the method.
Verbs == {"GET", "POST", "DELETE"}

\* The decorators applied to the client class ...
ClassDecorators ==
    { header("X-Tok", "c"), timeout("5"), timeout("0") }

\* ... and to the method: a query, a form and a multipart parameter bound
\* to arguments, a literal header, a content type, a body binding with and
\* without a serializer, and timeouts.
MethodDecorators ==
    { query("a", "qa"), form("a", "fa"), multipart("f", "mf"),
      header("X-Tok", "m"), content("text/xml"),
      body("b", "none"), body("b", "ser"),
      timeout("7"), timeout("0") }

\* The bound arguments of a call (args_dict): none, all true, all falsy, a
\* mapping as the body, no body.
ArgsInputs ==
    { EmptyMap,
      ("a" :> Scalar("v") @@ "f" :> Scalar("v") @@ "b" :> Scalar("v")),
      ("a" :> Scalar("") @@ "f" :> Scalar("0") @@ "b" :> Scalar("")),
      ("a" :> Scalar("v") @@ "b" :> Dict("k" :> Scalar("v"))),
      ("a" :> Scalar("v") @@ "f" :> Scalar("v")) }

\* The keyword arguments of a call: the reserved override keys, a raw
\* `data` and `files` keyword, and a multipart override together with a body
\* or a form override.
KwInputs ==
    { EmptyMap,
      "header" :> Dict("x-tok" :> Scalar("k")),
      "query" :> Dict("qk" :> Scalar("v")),
      "form" :> Dict("fk" :> Scalar("v")),
      "multipart" :> Dict("mk" :> Scalar("v")),
      "accept" :> Scalar("text/plain"),
      "content" :> Scalar("text/csv"),
      "timeout" :> Scalar("9"), "timeout" :> Scalar("slow"),
      "stream" :> Scalar("True"),
      "body" :> Scalar("kb"), "body" :> Dict("k" :> Scalar("v")),
      "data" :> Scalar("raw"), "files" :> Dict("fk" :> Scalar("v")),
      "multipart" :> Dict("mk" :> Scalar("v")) @@ "body" :> Scalar("kb"),
      "multipart" :> Dict("mk" :> Scalar("v")) @@ "form" :> Dict("fk" :> Scalar("v")) }

\* What the transport does with a request: it raises an exception, or it
\* returns a response.
Responses ==
    { [status |-> "200", ctype |-> "application/json", text |-> "{}"],
      [status |-> "200", ctype |-> "application/octet-stream", text |-> "bin"],
      [status |-> "200", ctype |-> "text/plain", text |-> "hi"],
      [status |-> "204", ctype |-> "", text |-> ""],
      [status |-> "404", ctype |-> "text/plain", text |-> "nf"] }

TransportError == [kind |-> "exception", exc |-> [type |-> "ConnectionError"]]
Response(r) == [kind |-> "response", response |-> r]

Replies == {TransportError} \cup {Response(r) : r \in Responses}

Init ==
    /\ NoMetadata
    /\ ndecor = 0
    /\ wrapped = FALSE
    /\ client \in Clients
    /\ call = Idle
    /\ sess = None

\* A decorator applied to declaration t: the set_decor call it makes.
\* Decorators are applied while the client is being defined, before calls.
Decorate(t, d) ==
    /\ call = Idle
    /\ ndecor < MaxDecors
    /\ LET r == set_decor(own, heap, t, d[1], d[2])
       IN  own' = r.own /\ heap' = r.heap
    /\ ndecor' = ndecor + 1
    /\ UNCHANGED <<log, wrapped, client, call, sess>>

\* A decorator on the client class.
DecorateClass == \E d \in ClassDecorators : Decorate("cls", d)

\* A decorator on the method: below the HTTP-method decorator it is applied
\* to the function, above it to the wrapper.
DecorateMethod ==
    \E d \in MethodDecorators : Decorate(IF wrapped THEN "wrap" ELSE "func", d)

\* The HTTP-method decorator (GET, POST, DELETE, ...) applied to the
\* function: it stores the verb and returns the wrapper that runs call.
HttpMethodDecorate ==
    /\ ~wrapped
    /\ \E verb \in Verbs :
          LET r == set_decor(own, heap, "func", "http_method", Scalar(verb))
          IN  own' = r.own /\ heap' = r.heap
    /\ wrapped' = TRUE
    /\ UNCHANGED <<log, ndecor, client, call, sess>>

\* The mapping object merge_dicts returns when its first argument is held
\* by dict object s (NoDecl: by none): a new mapping, held by no declaration.
merge_dicts_result(s) == NoDecl

\* A mutation of header_parameters_object: the class-level headers are
\* used as they are stored, without being copied.
header_parameters_object_aliased(o, h) ==
    IF Truthy(get_decor(o, h, "cls", "header")) THEN DecorOf(o, "cls") ELSE NoDecl

\* Lines 286-288: the dict object whose `header` entry header_parameters
\* refers to, NoDecl when it refers to a mapping no declaration holds.
header_parameters_object(o, h) ==
    merge_dicts_result(IF Truthy(get_decor(o, h, "cls", "header"))
                       THEN DecorOf(o, "cls") ELSE NoDecl)

\* The heap after a call.  The call assigns in place to header_parameters
\* (lines 297, 362, 366, 400, 404, 433) and to its own kwargs; every other
\* mapping it builds is new (__merge_args, dict(header_parameters.items())).
call_heap(o, h, cl, args, kw) ==
    LET s == header_parameters_object(o, h)
        st == resolve(o, h, args, kw)
        built == build_kwargs(cl.backend, cl.auth, st)
    IN  IF s = NoDecl THEN h
        ELSE [h EXCEPT ![s] = DictPut(@, "header",
                                      IF st.err # NoErr THEN st.header ELSE built.header)]

\* HttpMethodDecorator.call up to the transport call: the call has raised
\* (a validation error, an unsupported verb) or its request is in flight.
call_start(o, h, cl, args, kw) ==
    LET st == resolve(o, h, args, kw)
        built == build_kwargs(cl.backend, cl.auth, st)
        resolved == [k \in DOMAIN st \ {"kwargs", "err"} |-> st[k]]
    IN  IF st.err # NoErr
        THEN [ pc |-> "done", args |-> args, kw |-> kw, sent |-> None,
               outcome |-> [kind |-> "raise", branch |-> "validate", exc |-> st.err] ]
        ELSE IF st.http_method.s \notin HttpMethods
        THEN [ pc |-> "done", args |-> args, kw |-> kw, sent |-> None,
               outcome |-> [ kind |-> "raise", branch |-> "verb",
                             exc |-> [type |-> "ValueError"] ] ]
        ELSE [ pc |-> "inflight", args |-> args, kw |-> kw, st |-> resolved,
               forced |-> built.forced,
               sent |-> transport_call(cl.backend, st, built) ]

\* One call of the method with the given bound arguments and keywords;
\* call.via tells whether the client or a session wrapper was called.
DoCall(args, kw) ==
    /\ wrapped
    /\ call.pc \in {"idle", "returned"}
    /\ call' = [via |-> "client"] @@ call_start(own, heap, client, args, kw)
    /\ heap' = call_heap(own, heap, client, args, kw)
    /\ UNCHANGED <<own, log, ndecor, wrapped, client, sess>>

\* The transport raises or returns, and the call ends.
DoReply(reply) ==
    /\ call.pc = "inflight"
    /\ call' = [ pc |-> "done", via |-> call.via,
                 args |-> call.args, kw |-> call.kw, st |-> call.st,
                 forced |-> call.forced, sent |-> call.sent, reply |-> reply,
                 outcome |-> after_transport(call, reply) ]
    /\ UNCHANGED <<own, heap, log, ndecor, wrapped, client, sess>>

\* The method called on the client itself.
Call == \E args \in ArgsInputs : \E kw \in KwInputs : DoCall(args, kw)

\* The transport answers the request in flight.
Reply == \E reply \in {TransportError, Response([status |-> "204", ctype |-> "", text |-> ""])} :
            DoReply(reply)

\* The caller has the call's result or exception; the next call may start.
Return ==
    /\ call.pc = "done"
    /\ call' = [pc |-> "returned"]
    /\ UNCHANGED <<own, heap, log, ndecor, wrapped, client, sess>>

Next == DecorateClass \/ DecorateMethod \/ HttpMethodDecorate \/ Call \/ Reply \/ Return

Spec == Init /\ [][Next]_vars

----------------------------------------------------------------------------
(* The session wrappers (session.py) *)

\* The transport session a wrapper creates for the client's backend:
\* RestClientSession.__init__ creates a requests.Session or an httpx.Client,
\* RestClientAsyncSession.__init__ an httpx.AsyncClient, which is opened by
\* its __aenter__.
new_session(mode, backend) ==
    [ mode |-> mode,
      obj |-> IF mode = "async" THEN Object("httpx.AsyncClient")
              ELSE IF backend = "requests" THEN Object("requests.Session")
              ELSE Object("httpx.Client"),
      state |-> IF mode = "async" THEN "unopened" ELSE "open",
      scope |-> "out",
      pending |-> None,
      propagated |-> None ]

\* A mutation of session_exit: the session is closed only when the block
\* ended without an error.
session_exit_leaks_on_error(s, exc) ==
    [ state |-> IF exc = None THEN "closed" ELSE s.state, ret |-> None ]

\* RestClientSession.__exit__(*args) and RestClientAsyncSession.__aexit__
\* (*args): the session is closed (Session.close(), AsyncClient.__aexit__)
\* and None is returned.
session_exit(s, exc) == [state |-> "closed", ret |-> None]

\* invoker(*args, **kwargs): the session is injected as `__session`.
invoker_kwargs(s, kw) == DictPut(kw, "__session", s.obj)

\* RestClientSession(client) / RestClientAsyncSession(client) is created.
NewSession(mode) ==
    /\ wrapped
    /\ sess = None
    /\ call.pc \in {"idle", "returned"}
    /\ sess' = new_session(mode, client.backend)
    /\ UNCHANGED <<own, heap, log, ndecor, wrapped, client, call>>

\* __enter__ returns the wrapper; __aenter__ first opens the AsyncClient.
Enter ==
    /\ sess # None
    /\ sess.scope = "out"
    /\ call.pc \in {"idle", "returned"}
    /\ sess' = [sess EXCEPT !.scope = "in",
                            !.state = IF sess.mode = "async" THEN "open" ELSE @]
    /\ UNCHANGED <<own, heap, log, ndecor, wrapped, client, call>>

\* A call made through the wrapper: the invoker injects the session and
\* calls the client's method (its coroutine, for the asynchronous wrapper).
DoForward(args, kw) ==
    /\ sess # None
    /\ sess.scope # "exited"
    /\ wrapped
    /\ call.pc \in {"idle", "returned"}
    /\ call' = [via |-> "session"]
                  @@ call_start(own, heap, client, args, invoker_kwargs(sess, kw))
    /\ heap' = call_heap(own, heap, client, args, invoker_kwargs(sess, kw))
    /\ UNCHANGED <<own, log, ndecor, wrapped, client, sess>>

\* The block of the `with` statement raises: the exception of a failed call
\* that the block does not catch, or an error of the block's own code.
BlockRaises ==
    /\ sess # None
    /\ sess.scope = "in"
    /\ sess.pending = None
    /\ \/ /\ call.pc = "done"
          /\ call.outcome.kind = "raise"
          /\ sess' = [sess EXCEPT !.pending = call.outcome.exc]
          /\ call' = [pc |-> "returned"]
       \/ /\ call.pc \in {"idle", "returned"}
          /\ sess' = [sess EXCEPT !.pending = [type |-> "RuntimeError"]]
          /\ call' = call
    /\ UNCHANGED <<own, heap, log, ndecor, wrapped, client>>

\* The block is left, normally or with the pending exception: the `with`
\* statement calls __exit__ / __aexit__ with the exception and re-raises it
\* unless the exit returned a true value.
Exit ==
    /\ sess # None
    /\ sess.scope = "in"
    /\ call.pc \in {"idle", "returned"}
    /\ LET r == session_exit(sess, sess.pending)
       IN  sess' = [sess EXCEPT !.scope = "exited",
                                !.state = r.state,
                                !.propagated = IF Truthy(r.ret) THEN None ELSE sess.pending]
    /\ UNCHANGED <<own, heap, log, ndecor, wrapped, client, call>>

----------------------------------------------------------------------------
(* Response routing: status handlers, streaming, type-checked overrides *)

RouteClassDecorators == { on("404", Object("hc")), on("any", Object("hc")), stream }

RouteMethodDecorators == { on("404", Object("hm")), on("200", Object("hm")), stream }

\* Keyword arguments: each reserved key with a value of the type the call
\* expects and with a value of another type, alone and in pairs.
RouteKwInputs ==
    { EmptyMap,
      "header" :> Dict("x-tok" :> Scalar("k")), "header" :> Scalar("k"),
      "query" :> Dict("qk" :> Scalar("v")), "query" :> List(<<Scalar("v")>>),
      "form" :> Dict("fk" :> Scalar("v")), "form" :> Scalar("5"),
      "multipart" :> Dict("mk" :> Scalar("v")), "multipart" :> Scalar("True"),
      "on" :> Dict("404" :> Object("hk")), "on" :> Dict("any" :> Object("hk")),
      "on" :> Object("hk"),
      "accept" :> Scalar("text/plain"), "accept" :> Scalar("5"),
      "content" :> Scalar("text/csv"), "content" :> Dict(EmptyMap),
      "timeout" :> Scalar("9"), "timeout" :> Scalar("True"), "timeout" :> Scalar("slow"),
      "stream" :> Scalar("True"), "stream" :> Scalar("False"), "stream" :> Scalar("5"),
      "body" :> Scalar("kb"), "body" :> Scalar("5"),
      "header" :> Dict("x-tok" :> Scalar("k")) @@ "query" :> Scalar("v"),
      "timeout" :> Scalar("slow") @@ "body" :> Scalar("kb"),
      "on" :> Dict("404" :> Object("hk")) @@ "stream" :> Scalar("True") }

RouteDecorateClass == \E d \in RouteClassDecorators : Decorate("cls", d)

RouteDecorateMethod ==
    \E d \in RouteMethodDecorators : Decorate(IF wrapped THEN "wrap" ELSE "func", d)

RouteCall == \E kw \in RouteKwInputs : DoCall(EmptyMap, kw)

\* A synchronous session wrapper is created for the client.
RouteNewSession == NewSession("sync")

RouteForward == \E kw \in RouteKwInputs : DoForward(EmptyMap, kw)

RouteReply == \E reply \in Replies : DoReply(reply)

NextRoute ==
    \/ RouteDecorateClass \/ RouteDecorateMethod \/ HttpMethodDecorate
    \/ RouteNewSession \/ RouteCall \/ RouteForward \/ RouteReply \/ Return

SpecRoute == Init /\ [][NextRoute]_vars

----------------------------------------------------------------------------
(* Sessions: the scoped use of a session wrapper *)

SessionKwInputs ==
    { EmptyMap, "timeout" :> Scalar("9"), "timeout" :> Scalar("slow"),
      "stream" :> Scalar("True") }

SessionReplies ==
    { TransportError,
      Response([status |-> "204", ctype |-> "", text |-> ""]),
      Response([status |-> "404", ctype |-> "text/plain", text |-> "nf"]) }

\* A synchronous or an asynchronous session wrapper is created.
SessionNew == \E mode \in {"sync", "async"} : NewSession(mode)

SessionCall == \E kw \in SessionKwInputs : DoCall(EmptyMap, kw)

SessionForward == \E kw \in SessionKwInputs : DoForward(EmptyMap, kw)

SessionReply == \E reply \in SessionReplies : DoReply(reply)

NextSession ==
    \/ HttpMethodDecorate \/ SessionNew \/ Enter \/ SessionCall \/ SessionForward
    \/ SessionReply \/ Return \/ BlockRaises \/ Exit

SpecSession == Init /\ [][NextSession]_vars

----------------------------------------------------------------------------
(* Claims about the metadata store (checked under SpecStore) *)

\* The values set, in order, into dict object s under key name.
SetsInto(q, s, name) ==
    LET into == SelectSeq(q, LAMBDA e : e.obj = s /\ e.name = name)
    IN  [i \in 1..Len(into) |-> into[i].value]

\* The union of the mappings of q: each key has the value of the last
\* mapping of q that holds it.
UnionLaterWins(q) ==
    LET keys == UNION {DOMAIN q[i].d : i \in 1..Len(q)}
        lastWith(x) == CHOOSE i \in 1..Len(q) :
                          /\ x \in DOMAIN q[i].d
                          /\ \A j \in (i + 1)..Len(q) : x \notin DOMAIN q[j].d
    IN  [x \in keys |-> q[lastWith(x)].d[x]]

\* The concatenation of the lists of q, in order.
RECURSIVE Concat(_)
Concat(q) == IF q = <<>> THEN <<>> ELSE q[1].l \o Concat(Tail(q))

\* C4 (as claimed): get_decor(t, name) right after set_decor(t, name, v) with
\* a scalar v returns v, also when v is falsy.
C4_GetReturnsWhatWasSet ==
    Len(log) > 0 =>
        LET e == log[Len(log)]
        IN  e.value.kind = "scalar" => get_decor(own, heap, e.t, e.name) = e.value

----------------------------------------------------------------------------
(* Claims about request synthesis (checked under Spec) *)

\* Whether declaration t has a value stored under the key, and the value.
Declared(t, name) == HasDecorKey(own, t) /\ name \in DOMAIN heap[DecorOf(own, t)]
Stored(t, name) == heap[DecorOf(own, t)][name]

\* C1 (as claimed): a call whose resolved multipart parameters and body are
\* both non-empty, and which passed validation, hands the transport the
\* multipart parts (`files`) and no `data` / `content` payload.
C1_MultipartExcludesBody ==
    (call.pc = "inflight" /\ Truthy(call.st.multipart) /\ Truthy(call.st.body)) =>
        /\ "files" \in DOMAIN call.sent.kwargs
        /\ "data" \notin DOMAIN call.sent.kwargs
        /\ "content" \notin DOMAIN call.sent.kwargs

\* C2 (as claimed): in a call whose resolved multipart parameters are
\* non-empty the engine itself never sets the content-type header to
\* application/json or application/x-www-form-urlencoded.
C2_MultipartNoForcedContentType ==
    (call.pc = "inflight" /\ Truthy(call.st.multipart)) =>
        call.forced \cap {"application/json", "application/x-www-form-urlencoded"} = {}

\* C3 (as claimed): with no call-time timeout override, and a timeout
\* declared on the class and on the method, the resolved timeout is the
\* method-level value.
C3_MethodTimeoutWins ==
    ( /\ call.pc = "inflight"
      /\ "timeout" \notin DOMAIN call.kw
      /\ Declared("cls", "timeout")
      /\ Declared("func", "timeout") ) =>
        call.st.timeout = Stored("func", "timeout")

----------------------------------------------------------------------------
(* Claims about response routing and errors (checked under SpecRoute) *)

\* The call has ended after the transport returned a response.
Answered == call.pc = "done" /\ call.sent # None /\ call.reply.kind = "response"

\* C6: an exact-status handler wins over the wildcard handler, the wildcard
\* handler over streaming, streaming over the default handling; the handler
\* chosen is invoked with the raw response and its result returned, and a
\* streamed call returns the raw response itself.
C6_RoutingPriority ==
    Answered =>
        LET handlers == call.st.on.d
            r == call.reply.response
            o == call.outcome
        IN  IF r.status \in DOMAIN handlers
            THEN /\ o.branch = "exact" /\ o.kind = "return"
                 /\ o.value = [kind |-> "handled", by |-> handlers[r.status], arg |-> r]
            ELSE IF "any" \in DOMAIN handlers
            THEN /\ o.branch = "wildcard" /\ o.kind = "return"
                 /\ o.value = [kind |-> "handled", by |-> handlers["any"], arg |-> r]
            ELSE IF call.st.stream = Scalar("True")
            THEN o.branch = "stream" /\ o.kind = "return" /\ o.value = r
            ELSE o.branch = "default"

\* C6 witness: a response whose status has a handler, with a different
\* wildcard handler and the stream flag set, was answered by the exact
\* handler.
C6_Witness ==
    /\ Answered
    /\ call.reply.response.status \in DOMAIN call.st.on.d
    /\ "any" \in DOMAIN call.st.on.d
    /\ call.st.on.d["any"] # call.st.on.d[call.reply.response.status]
    /\ call.st.stream = Scalar("True")
    /\ call.outcome.branch = "exact"

\* C7: a non-streaming call answered with an error status raises the
\* engine's HTTP error carrying the status when neither a handler for the
\* status nor a wildcard handler is resolved, and returns the handler's
\* result, raising nothing, when a handler for the status is.
C7_ErrorStatus ==
    (Answered /\ call.reply.response.status = "404" /\ ~Truthy(call.st.stream)) =>
        LET handlers == call.st.on.d
            r == call.reply.response
            o == call.outcome
        IN  /\ ("404" \notin DOMAIN handlers /\ "any" \notin DOMAIN handlers) =>
                  /\ o.kind = "raise"
                  /\ o.exc.type = "HTTPErrorWrapper"
                  /\ o.exc.cause = [type |-> "HTTPError", status |-> "404"]
            /\ "404" \in DOMAIN handlers =>
                  /\ o.kind = "return"
                  /\ o.value = [kind |-> "handled", by |-> handlers["404"], arg |-> r]

\* C7 witness: a 404 answer with no handler resolved was raised as the HTTP
\* error carrying 404.
C7_Witness ==
    /\ Answered
    /\ call.reply.response.status = "404"
    /\ ~Truthy(call.st.stream)
    /\ DOMAIN call.st.on.d = {}
    /\ call.outcome.kind = "raise"
    /\ call.outcome.exc.cause.status = "404"

\* C8: an exception the transport raises reaches the caller as the engine's
\* wrapper carrying that exception, for every verb, with and without a
\* session, streaming or not.
C8_TransportErrorsWrapped ==
    (call.pc = "done" /\ call.sent # None /\ call.reply.kind = "exception") =>
        /\ call.outcome.kind = "raise"
        /\ call.outcome.exc = [type |-> "HTTPErrorWrapper", cause |-> call.reply.exc]

\* C8 witness: the transport raised in a streamed request sent on a session.
C8_Witness ==
    /\ call.pc = "done" /\ call.sent # None
    /\ call.reply.kind = "exception"
    /\ call.sent.on.id \in {"requests.Session", "httpx.Client"}
    /\ Truthy(call.st.stream)
    /\ call.outcome.kind = "raise"

\* The type each reserved key's value must have, as the claim states it: a
\* mapping, a string, a number, a boolean; the body override has none.
C9_OfExpectedType(key, v) ==
    CASE key \in {"header", "query", "form", "multipart", "on"} -> v.kind = "dict"
      [] key \in {"accept", "content"} ->
             v.kind = "scalar" /\ v.s \notin NumberLiterals \cup {"True", "False"}
      [] key = "timeout" -> v.kind = "scalar" /\ v.s \in NumberLiterals \cup {"True", "False"}
      [] key = "stream" -> v.kind = "scalar" /\ v.s \in {"True", "False"}
      [] OTHER -> TRUE

C9_ExpectedName(key) ==
    CASE key \in {"header", "query", "form", "multipart", "on"} -> "dict"
      [] key \in {"accept", "content"} -> "str"
      [] key = "timeout" -> "Number"
      [] key = "stream" -> "bool"
      [] OTHER -> "any"

\* The reserved keys of the call's keywords whose value has another type.
C9_BadKeys ==
    {key \in DOMAIN call.kw : ~C9_OfExpectedType(key, call.kw[key])}

----------------------------------------------------------------------------
(* Claims about the session wrappers (checked under SpecSession) *)

\* C10: once the scoped block of a session wrapper has been left, normally
\* or by an error, the session is closed, and an error the block raised is
\* raised on (the exit does not swallow it); for both wrappers.
C10_ExitReleases ==
    (sess # None /\ sess.scope = "exited") =>
        /\ sess.state = "closed"
        /\ sess.propagated = sess.pending

\* C10 witness: the block of an asynchronous wrapper was left by an error
\* of a forwarded call.
C10_Witness ==
    /\ sess # None
    /\ sess.mode = "async"
    /\ sess.scope = "exited"
    /\ sess.pending # None
    /\ sess.pending.type = "HTTPErrorWrapper"
    /\ sess.state = "closed"

----------------------------------------------------------------------------
(* Claims about bound arguments and headers (checked under Spec) *)

\* C11 (as claimed): for each of query, form and multipart and every
\* (argument, parameter) pair declared on the method, the resolved map of a
\* call holds the parameter with the argument's value when the argument is
\* bound, whatever its value, and does not hold it when it is not bound.
C11_BoundArgumentsResolved ==
    (call.pc = "inflight") =>
        \A decor \in {"query", "form", "multipart"} :
            Declared("func", decor) =>
                \A a \in DOMAIN Stored("func", decor).d :
                    LET p == Stored("func", decor).d[a].s
                    IN  IF a \in DOMAIN call.args
                        THEN /\ p \in DOMAIN call.st[decor].d
                             /\ call.st[decor].d[p] = call.args[a]
                        ELSE p \notin DOMAIN call.st[decor].d

----------------------------------------------------------------------------
(* Headers: class defaults, method declarations, call-time overrides *)

\* Class-level headers ...
HeaderClassDecorators ==
    { header("X-Tok", "c"), header("X-Arg", "c"), accept("text/html") }

\* ... and method-level headers: literals, and one whose declared value is
\* the name of the argument a.
HeaderMethodDecorators ==
    { header("X-Tok", "m"), header("X-Arg", "a"), content("text/xml") }

\* The bound arguments: a is not bound, bound to a value, bound to "".
HeaderArgsInputs == { EmptyMap, "a" :> Scalar("v"), "a" :> Scalar("") }

HeaderKwInputs ==
    { EmptyMap,
      "header" :> Dict("x-tok" :> Scalar("k")),
      "header" :> Dict("x-arg" :> Scalar("k") @@ "content-type" :> Scalar("text/csv")),
      "header" :> Dict("accept" :> Scalar("k")) @@ "accept" :> Scalar("text/plain"),
      "content" :> Scalar("text/csv") }

HeaderDecorateClass == \E d \in HeaderClassDecorators : Decorate("cls", d)

HeaderDecorateMethod ==
    \E d \in HeaderMethodDecorators : Decorate(IF wrapped THEN "wrap" ELSE "func", d)

HeaderCall == \E args \in HeaderArgsInputs : \E kw \in HeaderKwInputs : DoCall(args, kw)

NextHeader ==
    \/ HeaderDecorateClass \/ HeaderDecorateMethod \/ HttpMethodDecorate
    \/ HeaderCall \/ Reply \/ Return

SpecHeader == Init /\ [][NextHeader]_vars

\* The header keys a call-time `accept` / `content` override assigns.
C12_ScalarOverridden(kw) ==
    (IF "accept" \in DOMAIN kw THEN {"accept"} ELSE {})
        \cup (IF "content" \in DOMAIN kw THEN {"content-type"} ELSE {})

\* The value the precedence gives header key k in the current call: the
\* call-time `header` entry, else the method-level literal, else the
\* class-level value; None where the claim names no value (the key is
\* declared nowhere, or the method-level value names a bound argument).
C12_Expected(k) ==
    IF "header" \in DOMAIN call.kw /\ k \in DOMAIN call.kw["header"].d
    THEN call.kw["header"].d[k]
    ELSE IF Declared("func", "header") /\ k \in DOMAIN Stored("func", "header").d
    THEN (IF Stored("func", "header").d[k].s \notin DOMAIN call.args
          THEN Stored("func", "header").d[k] ELSE None)
    ELSE IF Declared("cls", "header") /\ k \in DOMAIN Stored("cls", "header").d
    THEN Stored("cls", "header").d[k]
    ELSE None

----------------------------------------------------------------------------
(* Claims about the session a call is dispatched on (checked under SpecSession) *)

\* The module-level transports: the `requests` and the `httpx` module.
C13_ModuleLevel == {Object("requests"), Object("httpx")}

\* C13: the transport call of a call forwarded through a session wrapper is
\* made on the wrapper's own session object, never on a module-level
\* transport, and its keyword arguments do not hold `__session`; the
\* transport call of a call made on the client itself is made on the
\* module-level transport of the client's backend.
C13_DispatchedOnSession ==
    (call.pc \in {"inflight", "done"} /\ call.sent # None) =>
        /\ "__session" \notin DOMAIN call.sent.kwargs
        /\ call.via = "session" =>
              /\ call.sent.on = sess.obj
              /\ call.sent.on \notin C13_ModuleLevel
        /\ call.via = "client" =>
              call.sent.on = Object(client.backend)

\* C13 witness: a call with a keyword argument, forwarded through the
\* wrapper of a `requests` client, is in flight on the wrapper's session.
C13_Witness ==
    /\ call.pc = "inflight"
    /\ call.via = "session"
    /\ client.backend = "requests"
    /\ sess.obj = Object("requests.Session")
    /\ call.sent.on = sess.obj
    /\ "__session" \in DOMAIN call.kw
    /\ "stream" \in DOMAIN call.sent.kwargs

----------------------------------------------------------------------------
(* Claims about what a call leaves unchanged (checked under SpecHeader) *)

\* The metadata keys.
C14_Keys == {DECOR_LIST[i] : i \in 1..Len(DECOR_LIST)} \cup {"http_method", "endpoint"}

----------------------------------------------------------------------------
(* Claims about what set_decor leaves unchanged (checked under SpecStore) *)

\* Declarations t and u are a wrapper and the function it wraps.
C15_WrapperPair(t, u) == Wrapped(t) = u \/ Wrapped(u) = t

\* C15 (as claimed): set_decor(t, name, value) changes what get_decor
\* returns only for key name of t: for every other declaration, the parent
\* of a class included and only the other half of a wrapper / wrapped
\* function pair excluded, and for every other key of t, get_decor returns
\* afterwards what it returned before.
C15_SetTouchesOnlyTarget ==
    [][ (Len(log') = Len(log) + 1) =>
            LET e == log'[Len(log')]
            IN  /\ \A u \in Decls \ {e.t} : \A name \in StoreKeys :
                      ~C15_WrapperPair(e.t, u) =>
                          get_decor(own', heap', u, name) = get_decor(own, heap, u, name)
                /\ \A name \in StoreKeys \ {e.name} :
                      get_decor(own', heap', e.t, name) = get_decor(own, heap, e.t, name) ]_vars

====
